---------------------------- MODULE Spec2Model ----------------------------
(***************************************************************************)
(* A model of the DataEngine of nautilus_core/data/src/engine/mod.rs:      *)
(* the client adapter registry, the command dispatcher, the request and    *)
(* response router and the data handlers, with the cache, the message bus  *)
(* and the client adapter as the collaborators the engine calls.           *)
(***************************************************************************)
EXTENDS Integers, Sequences, FiniteSets, TLC

VARIABLES
    clients,              \* IndexMap<ClientId, DataClientAdapter>, in insertion order
    default_client,       \* Option<DataClientAdapter>
    routing_map,          \* IndexMap<Venue, ClientId>, in insertion order
    buffered_deltas_map,  \* HashMap<InstrumentId, Vec<OrderBookDelta>>
    config,               \* DataEngineConfig (the two options the handlers read)
    cache,                \* the shared Cache
    msgbus,               \* the shared MessageBus: what was published and sent on it, the
                          \* handlers subscribed on it and what they were invoked with
    panicked,             \* an operation panicked and unwound out of the engine
    adapters_made,        \* how many adapter objects were constructed so far
    ops,                  \* how many commands, or data events and responses, ran so far
    last,                 \* the operation that ran last, with its input
    calls,                \* the calls the last operation made on the adapters, the clock, the
                          \* cache and the bus and the borrows it took for them, in order
    processed,            \* the events passed to process so far, in order
    consumed,             \* the engine value was moved into start, stop, reset or dispose
    test_msgbus           \* another MessageBus instance, which the engine does not hold

vars == <<clients, default_client, routing_map, buffered_deltas_map, config,
          cache, msgbus, panicked, adapters_made, ops, last, calls, processed,
          consumed, test_msgbus>>

-----------------------------------------------------------------------------
(* Bounds *)

MaxAdapters == 3
MaxCommands == 1
MaxOps == 2
MaxTs == 2
MaxPayload == 1
MaxResponses == 1

-----------------------------------------------------------------------------
(* Identifiers and values *)

ClientIds == {"C1", "C2"}
Venues == {"V1", "V2"}
InstrumentIds == {"AUDUSD.SIM", "EURUSD.SIM"}
BarType(instrument_id) ==
    [instrument_id |-> instrument_id, spec |-> "1-MINUTE-LAST",
     aggregation_source |-> "INTERNAL"]
BarTypes == {BarType(i) : i \in InstrumentIds}
Timestamps == 1..MaxTs

\* The venue the adapters of the model are constructed with.
AdapterVenue == "V1"

None == <<>>
Some(x) == <<x>>
Unit == [kind |-> "Unit"]

Categories ==
    {"generic", "instrument", "order_book_delta", "order_book_snapshot",
     "quote_tick", "trade_tick", "bar", "instrument_status", "instrument_close"}

InstrumentTypeNames ==
    {"OrderBookDelta", "OrderBookDeltas", "InstrumentAny", "QuoteTick", "TradeTick"}

\* DataType { type_name, metadata }: key is the instrument_id or the bar_type
\* the metadata carries, "" when the metadata is nil.
\* The commands of the model name one instrument and one bar type.
DataTypes ==
    {[type_name |-> "String", key |-> ""]}
    \cup [type_name : InstrumentTypeNames, key : {"AUDUSD.SIM"}]
    \cup [type_name : {"Bar"}, key : {BarType("AUDUSD.SIM")}]

Actions == {"Subscribe", "Unsubscribe"}

SubscriptionCommands ==
    [kind : {"SubscriptionCommand"}, client_id : ClientIds, venue : Venues,
     data_type : DataTypes, action : Actions]

\* What the &dyn Any handed to execute can be: a command, or anything else.
\* execute reads the client_id and hands the command to the adapter, which reads
\* the data_type and the action: the venue, which neither reads, is the adapters'.
OtherMessage == [kind |-> "Other"]
\* The Unsubscribe commands of the model are for a custom type and for bars.
Messages ==
    {c \in SubscriptionCommands :
        /\ c.venue = AdapterVenue
        /\ c.action = "Unsubscribe" => c.data_type.type_name \in {"String", "Bar"}}
    \cup {OtherMessage}

\* send_subscription_command reads the client_id and the venue only: the commands
\* it is given differ in these.
RoutedCommands ==
    {c \in SubscriptionCommands :
        c.data_type.type_name = "String" /\ c.action = "Subscribe"}

\* DataRequest: request reads the client_id only; the venue is there for what a
\* routed lookup would read.
DataRequests == [kind : {"DataRequest"}, client_id : ClientIds, venue : Venues]

-----------------------------------------------------------------------------
(* The client adapter *)

DataClientAdapter_new(client_id, venue, uid) ==
    [client_id |-> client_id, venue |-> venue, uid |-> uid,
     subs |-> [c \in Categories |-> {}], connected |-> FALSE]

\* The subscription set a data type belongs to.
CategoryOf(data_type) ==
    CASE data_type.type_name = "OrderBookDelta"  -> "order_book_delta"
      [] data_type.type_name = "OrderBookDeltas" -> "order_book_snapshot"
      [] data_type.type_name = "InstrumentAny"   -> "instrument"
      [] data_type.type_name = "QuoteTick"       -> "quote_tick"
      [] data_type.type_name = "TradeTick"       -> "trade_tick"
      [] data_type.type_name = "Bar"             -> "bar"
      [] OTHER                                   -> "generic"

\* The entry kept in that set: the DataType itself for a custom type, the
\* instrument_id or bar_type of the metadata otherwise.
KeyOf(data_type) ==
    IF CategoryOf(data_type) = "generic" THEN data_type ELSE data_type.key

\* DataClientAdapter::execute(&mut self, command)
Adapter_execute(adapter, cmd) ==
    LET cat == CategoryOf(cmd.data_type)
        key == KeyOf(cmd.data_type)
    IN  IF cmd.action = "Subscribe"
        THEN [adapter EXCEPT !.subs[cat] = @ \cup {key}]
        ELSE [adapter EXCEPT !.subs[cat] = @ \ {key}]

-----------------------------------------------------------------------------
(* IndexMap: a sequence of entries [k |-> key, v |-> value], in insertion order *)

\* get_index_of: the position of the entry with this key, 0 when absent.
IndexOf(map, key) ==
    LET S == {i \in DOMAIN map : map[i].k = key}
    IN  IF S = {} THEN 0 ELSE CHOOSE i \in S : \A j \in S : i <= j

\* An insert that appends a second entry for a key that is present.
IndexMapInsertAppend(map, key, value) == Append(map, [k |-> key, v |-> value])

\* An insert that moves a present key to the end.
IndexMapInsertLast(map, key, value) ==
    LET i == IndexOf(map, key)
    IN  IF i = 0
        THEN Append(map, [k |-> key, v |-> value])
        ELSE Append(SubSeq(map, 1, i - 1) \o SubSeq(map, i + 1, Len(map)),
                    [k |-> key, v |-> value])

\* IndexMap::insert: a present key keeps its position and gets the new value,
\* an absent key is appended.
IndexMapInsert(map, key, value) ==
    LET i == IndexOf(map, key)
    IN  IF i = 0
        THEN Append(map, [k |-> key, v |-> value])
        ELSE [map EXCEPT ![i] = [k |-> key, v |-> value]]

\* IndexMap::get
IndexMapGet(map, key) ==
    LET i == IndexOf(map, key)
    IN  IF i = 0 THEN None ELSE Some(map[i].v)

\* IndexMap::contains_key
IndexMapContains(map, key) == IndexOf(map, key) # 0

\* A removal that takes the last entry when the key is absent.
IndexMapShiftRemoveOrLast(map, key) ==
    LET i == IF IndexOf(map, key) = 0 THEN Len(map) ELSE IndexOf(map, key)
    IN  IF i = 0 THEN map
        ELSE SubSeq(map, 1, i - 1) \o SubSeq(map, i + 1, Len(map))

\* IndexMap::shift_remove: the entry is removed, the others keep their order.
IndexMapShiftRemove(map, key) ==
    LET i == IndexOf(map, key)
    IN  IF i = 0 THEN map
        ELSE SubSeq(map, 1, i - 1) \o SubSeq(map, i + 1, Len(map))

\* IndexMap::keys and IndexMap::values, in insertion order
IndexMapKeys(map) == [i \in DOMAIN map |-> map[i].k]
IndexMapValues(map) == [i \in DOMAIN map |-> map[i].v]

-----------------------------------------------------------------------------
(* DataEngine::new *)

Configs == [validate_data_sequence : BOOLEAN, buffer_deltas : BOOLEAN]

EmptyCache ==
    [quotes |-> [i \in InstrumentIds |-> <<>>],
     trades |-> [i \in InstrumentIds |-> <<>>],
     bars |-> [b \in BarTypes |-> <<>>],
     instruments |-> {},
     books |-> [i \in InstrumentIds |-> None]]

EmptyBus ==
    [published |-> <<>>, responses |-> <<>>, subscriptions |-> {}, delivered |-> <<>>]

\* DataEngineConfig::default()
DataEngineConfig_default == [validate_data_sequence |-> FALSE, buffer_deltas |-> FALSE]

InitWith(cfg) ==
    /\ clients = <<>>
    /\ routing_map = <<>>
    /\ default_client = None
    /\ buffered_deltas_map = [i \in InstrumentIds |-> <<>>]
    /\ config = cfg
    /\ cache = EmptyCache
    /\ msgbus = EmptyBus
    /\ panicked = FALSE
    /\ adapters_made = 0
    /\ ops = 0
    /\ processed = <<>>
    /\ last = [op |-> "new"]
    /\ calls = <<>>
    /\ consumed = FALSE
    /\ test_msgbus = EmptyBus

\* DataEngine::new(clock, cache, msgbus, None)
Init == InitWith(DataEngineConfig_default)

\* An adapter object the caller constructs and hands to the engine.
NewAdapters ==
    {DataClientAdapter_new(c, AdapterVenue, adapters_made + 1) : c \in ClientIds}

Call(adapter, method, arg) == [uid |-> adapter.uid, method |-> method, arg |-> arg]

\* The engine value stays with its owner, and the other bus is not touched.
owner_unchanged == UNCHANGED <<consumed, test_msgbus>>

data_unchanged ==
    /\ UNCHANGED <<buffered_deltas_map, config, cache, msgbus, panicked, processed>>
    /\ owner_unchanged

registry_unchanged ==
    /\ UNCHANGED <<clients, default_client, routing_map, adapters_made>>
    /\ owner_unchanged

-----------------------------------------------------------------------------
(* Client adapter registry *)

register_default_client(client) ==
    /\ adapters_made < MaxAdapters
    /\ default_client' = Some(client)
    /\ adapters_made' = adapters_made + 1
    /\ last' = [op |-> "register_default_client", client |-> client]
    /\ calls' = <<>>
    /\ UNCHANGED <<clients, routing_map, ops>>
    /\ data_unchanged

\* The client id the routing venue of a registration was routed to before it.
RoutedBefore(routing) ==
    IF routing # None THEN IndexMapGet(routing_map, routing[1]) ELSE None

\* register_client keeping the routing entry a venue has already.
register_client_keep_route(client, routing) ==
    /\ adapters_made < MaxAdapters
    /\ routing_map' = IF routing # None /\ ~IndexMapContains(routing_map, routing[1])
                      THEN IndexMapInsert(routing_map, routing[1], client.client_id)
                      ELSE routing_map
    /\ clients' = IndexMapInsert(clients, client.client_id, client)
    /\ adapters_made' = adapters_made + 1
    /\ last' = [op |-> "register_client", client |-> client, routing |-> routing,
                present |-> IndexMapContains(clients, client.client_id),
                before |-> IndexMapKeys(clients),
                routed |-> RoutedBefore(routing)]
    /\ calls' = <<>>
    /\ UNCHANGED <<default_client, ops>>
    /\ data_unchanged

\* register_client pushing the adapter without looking for its client_id.
register_client_push(client, routing) ==
    /\ adapters_made < MaxAdapters
    /\ routing_map' = IF routing # None
                      THEN IndexMapInsert(routing_map, routing[1], client.client_id)
                      ELSE routing_map
    /\ clients' = IndexMapInsertAppend(clients, client.client_id, client)
    /\ adapters_made' = adapters_made + 1
    /\ last' = [op |-> "register_client", client |-> client, routing |-> routing,
                present |-> IndexMapContains(clients, client.client_id),
                before |-> IndexMapKeys(clients),
                routed |-> RoutedBefore(routing)]
    /\ calls' = <<>>
    /\ UNCHANGED <<default_client, ops>>
    /\ data_unchanged

register_client(client, routing) ==
    /\ adapters_made < MaxAdapters
    /\ routing_map' = IF routing # None
                      THEN IndexMapInsert(routing_map, routing[1], client.client_id)
                      ELSE routing_map
    /\ clients' = IndexMapInsert(clients, client.client_id, client)
    /\ adapters_made' = adapters_made + 1
    /\ last' = [op |-> "register_client", client |-> client, routing |-> routing,
                present |-> IndexMapContains(clients, client.client_id),
                before |-> IndexMapKeys(clients),
                routed |-> RoutedBefore(routing)]
    /\ calls' = <<>>
    /\ UNCHANGED <<default_client, ops>>
    /\ data_unchanged

\* What a deregister_client(client_id) undoes: when it follows the registration
\* of an adapter of that client_id directly, the client ids as they were listed
\* before that registration, and whether client_id was among them.
Undoes(client_id) ==
    IF last.op = "register_client" /\ last.client.client_id = client_id
    THEN Some([before |-> last.before, present |-> last.present])
    ELSE None

\* deregister_client removing the adapter registered last, whatever its client_id.
deregister_client_pop(client_id) ==
    /\ clients' = SubSeq(clients, 1, Len(clients) - 1)
    /\ last' = [op |-> "deregister_client", client_id |-> client_id,
                present |-> IndexMapContains(clients, client_id),
                undoes |-> Undoes(client_id)]
    /\ calls' = <<>>
    /\ UNCHANGED <<routing_map, default_client, adapters_made, ops>>
    /\ data_unchanged

deregister_client(client_id) ==
    /\ clients' = IndexMapShiftRemove(clients, client_id)
    /\ last' = [op |-> "deregister_client", client_id |-> client_id,
                present |-> IndexMapContains(clients, client_id),
                undoes |-> Undoes(client_id)]
    /\ calls' = <<>>
    /\ UNCHANGED <<routing_map, default_client, adapters_made, ops>>
    /\ data_unchanged

\* get_client handing out the default client when neither lookup finds one.
get_client_or_default(client_id, venue) ==
    IF IndexMapGet(clients, client_id) # None
    THEN IndexMapGet(clients, client_id)
    ELSE IF /\ IndexMapGet(routing_map, venue) # None
            /\ IndexMapGet(clients, IndexMapGet(routing_map, venue)[1]) # None
         THEN IndexMapGet(clients, IndexMapGet(routing_map, venue)[1])
         ELSE default_client

get_client(client_id, venue) ==
    IF IndexMapGet(clients, client_id) # None
    THEN IndexMapGet(clients, client_id)
    ELSE IF IndexMapGet(routing_map, venue) # None
         THEN IndexMapGet(clients, IndexMapGet(routing_map, venue)[1])
         ELSE None

registed_clients == IndexMapKeys(clients)

-----------------------------------------------------------------------------
(* Subscriptions *)

RECURSIVE SetToSeq(_)
\* The elements of a HashSet in the order an iteration yields them (some order).
SetToSeq(S) ==
    IF S = {} THEN <<>>
    ELSE LET x == CHOOSE y \in S : TRUE IN <<x>> \o SetToSeq(S \ {x})

\* collect_subscriptions returning each entity once, whoever holds it.
collect_subscriptions_union(category) ==
    SetToSeq(UNION {clients[i].v.subs[category] : i \in DOMAIN clients})

collect_subscriptions(category) ==
    LET subs[i \in 0..Len(clients)] ==
            IF i = 0 THEN <<>>
            ELSE subs[i - 1] \o SetToSeq(clients[i].v.subs[category])
    IN  subs[Len(clients)]

subscribed_custom_data == collect_subscriptions("generic")
subscribed_instruments == collect_subscriptions("instrument")
subscribed_order_book_deltas == collect_subscriptions("order_book_delta")
subscribed_order_book_snapshots == collect_subscriptions("order_book_snapshot")
subscribed_quote_ticks == collect_subscriptions("quote_tick")
subscribed_trade_ticks == collect_subscriptions("trade_tick")
subscribed_bars == collect_subscriptions("bar")
subscribed_instrument_status == collect_subscriptions("instrument_status")
subscribed_instrument_close == collect_subscriptions("instrument_close")

-----------------------------------------------------------------------------
(* Command dispatcher *)

\* execute handing the command to the first adapter of the registry instead of
\* the one registered under the command's client_id.
execute_first_client(msg) ==
    /\ ops < MaxCommands
    /\ ops' = ops + 1
    /\ last' = [op |-> "execute", msg |-> msg]
    /\ IF msg.kind = "SubscriptionCommand"
       THEN LET i == IF IndexOf(clients, msg.client_id) # 0 THEN 1 ELSE 0
            IN  IF i # 0
                THEN /\ clients' = [clients EXCEPT ![i].v = Adapter_execute(@, msg)]
                     /\ calls' = <<Call(clients[i].v, "execute", msg)>>
                ELSE /\ UNCHANGED clients
                     /\ calls' = <<>>
       ELSE /\ UNCHANGED clients
            /\ calls' = <<>>
    /\ UNCHANGED <<routing_map, default_client, adapters_made>>
    /\ data_unchanged

execute(msg) ==
    /\ ops < MaxCommands
    /\ ops' = ops + 1
    /\ last' = [op |-> "execute", msg |-> msg]
    /\ IF msg.kind = "SubscriptionCommand"
       THEN LET i == IndexOf(clients, msg.client_id)
            IN  IF i # 0
                THEN /\ clients' = [clients EXCEPT ![i].v = Adapter_execute(@, msg)]
                     /\ calls' = <<Call(clients[i].v, "execute", msg)>>
                ELSE /\ UNCHANGED clients
                     /\ calls' = <<>>
       ELSE /\ UNCHANGED clients
            /\ calls' = <<>>
    /\ UNCHANGED <<routing_map, default_client, adapters_made>>
    /\ data_unchanged

\* SubscriptionCommandHandler::handle, registered at the data_engine_execute endpoint
SubscriptionCommandHandler_handle(message) == execute(message)

send_subscription_command(message) ==
    /\ ops < MaxCommands
    /\ ops' = ops + 1
    /\ last' = [op |-> "send_subscription_command", msg |-> message]
    /\ LET client == get_client(message.client_id, message.venue)
       IN  IF client # None
           THEN calls' = <<Call(client[1], "through_execute", message)>>
           ELSE calls' = <<>>
    /\ UNCHANGED <<clients, routing_map, default_client, adapters_made>>
    /\ data_unchanged

\* request resolving its adapter as get_client does, by the venue when the
\* client_id is not registered.
request_routed(req) ==
    /\ ops < MaxCommands
    /\ ops' = ops + 1
    /\ last' = [op |-> "request", req |-> req]
    /\ LET client == get_client(req.client_id, req.venue)
       IN  IF client # None
           THEN calls' = <<Call(client[1], "request", req)>>
           ELSE calls' = <<>>
    /\ UNCHANGED <<clients, routing_map, default_client, adapters_made>>
    /\ data_unchanged

\* The adapter's request takes &self and its result is discarded.
request(req) ==
    /\ ops < MaxCommands
    /\ ops' = ops + 1
    /\ last' = [op |-> "request", req |-> req]
    /\ LET client == IndexMapGet(clients, req.client_id)
       IN  IF client # None
           THEN calls' = <<Call(client[1], "request", req)>>
           ELSE calls' = <<>>
    /\ UNCHANGED <<clients, routing_map, default_client, adapters_made>>
    /\ data_unchanged

-----------------------------------------------------------------------------
(* The registry and the command dispatcher, driven by any caller *)

Next ==
    \/ \E client \in NewAdapters : register_default_client(client)
    \/ \E client \in NewAdapters, routing \in {None, Some(AdapterVenue)} :
          register_client(client, routing)
    \/ \E client_id \in ClientIds : deregister_client(client_id)
    \/ \E msg \in Messages : SubscriptionCommandHandler_handle(msg)
    \/ \E message \in RoutedCommands : send_subscription_command(message)
    \/ \E req \in DataRequests : request(req)

Spec == Init /\ [][Next]_vars

\* The commands an adapter may have executed before it is handed to the engine.
PriorCommands(adapter) ==
    {c \in SubscriptionCommands :
        /\ c.client_id = adapter.client_id
        /\ c.venue = adapter.venue
        /\ c.action = "Subscribe"
        /\ c.data_type.type_name \in {"QuoteTick", "Bar"}}

\* An adapter the caller constructs and hands to the engine, as constructed or
\* after one Subscribe command was executed on it.
SubscribedAdapters ==
    NewAdapters
    \cup UNION {{Adapter_execute(a, c) : c \in PriorCommands(a)} : a \in NewAdapters}

\* The commands sent to adapters that hold subscriptions already.
SubscriptionMessages ==
    {m \in Messages :
        m.kind = "SubscriptionCommand" => m.data_type.type_name \in {"String", "QuoteTick", "Bar"}}

NextSubscriptions ==
    \/ \E client \in SubscribedAdapters \ NewAdapters : register_default_client(client)
    \/ \E client \in SubscribedAdapters : register_client(client, None)
    \/ \E client_id \in ClientIds : deregister_client(client_id)
    \/ \E msg \in SubscriptionMessages : SubscriptionCommandHandler_handle(msg)

\* The registry and the dispatcher with adapters that hold subscriptions when
\* they are registered.
SpecSubscriptions == Init /\ [][NextSubscriptions]_vars

-----------------------------------------------------------------------------
(* Market data: the Data enum and the payloads of a DataResponse *)

\* The id of an event stands for the rest of its content (prices, sizes): the
\* event of the n-th operation is unlike those of the operations before it.
Deltas(id) ==
    [kind : {"Delta"}, instrument_id : InstrumentIds, flags : {{}, {"F_LAST"}}, id : {id}]
DeltasBatches(id) == [kind : {"Deltas"}, instrument_id : InstrumentIds, id : {id}]
Depths(id) == [kind : {"Depth10"}, instrument_id : InstrumentIds, id : {id}]
Quotes(id) == [kind : {"Quote"}, instrument_id : InstrumentIds, id : {id}]
Trades(id) == [kind : {"Trade"}, instrument_id : InstrumentIds, id : {id}]
Bars(id) ==
    [kind : {"Bar"}, bar_type : BarTypes, ts_event : Timestamps, ts_init : Timestamps,
     id : {id}]
Instruments(id) == [kind : {"InstrumentAny"}, instrument_id : InstrumentIds, id : {id}]

DataInputs(id) ==
    Deltas(id) \cup DeltasBatches(id) \cup Depths(id) \cup Quotes(id) \cup Trades(id)
    \cup Bars(id)

\* Data::instrument_id
InstrumentOf(data) ==
    IF data.kind = "Bar" THEN data.bar_type.instrument_id ELSE data.instrument_id

-----------------------------------------------------------------------------
(* The cache: an insert and lookup facade. An insert that returns an error     *)
(* (ok = FALSE) leaves the cache as it was. Each collection is a deque, its    *)
(* front (the latest record) first.                                            *)

Cache_add_quote(c, quote, ok) ==
    IF ok THEN [c EXCEPT !.quotes[quote.instrument_id] = <<quote>> \o @] ELSE c

Cache_add_trade(c, trade, ok) ==
    IF ok THEN [c EXCEPT !.trades[trade.instrument_id] = <<trade>> \o @] ELSE c

Cache_add_bar(c, bar, ok) ==
    IF ok THEN [c EXCEPT !.bars[bar.bar_type] = <<bar>> \o @] ELSE c

Cache_add_instrument(c, instrument, ok) ==
    IF ok THEN [c EXCEPT !.instruments = @ \cup {instrument}] ELSE c

\* Cache::add_order_book: the cache manages an order book for the instrument;
\* the book is modelled by the events applied to it, in order.
Cache_add_order_book(c, instrument_id) == [c EXCEPT !.books[instrument_id] = Some(<<>>)]

\* Cache::order_book: the managed book of the instrument, if there is one.
Cache_order_book(c, instrument_id) == c.books[instrument_id]

\* OrderBook::apply_delta / apply_deltas / apply_depth on the book of the cache.
OrderBook_apply(c, instrument_id, data) ==
    [c EXCEPT !.books[instrument_id] = Some(Append(@[1], data))]

RECURSIVE Cache_add_all(_, _, _)
\* add_quotes, add_trades, add_bars: the items are inserted one after the other.
Cache_add_all(c, items, ok) ==
    IF items = <<>> \/ ~ok THEN c
    ELSE LET x == Head(items)
             c1 == CASE x.kind = "Quote" -> Cache_add_quote(c, x, TRUE)
                     [] x.kind = "Trade" -> Cache_add_trade(c, x, TRUE)
                     [] x.kind = "Bar"   -> Cache_add_bar(c, x, TRUE)
         IN  Cache_add_all(c1, Tail(items), ok)

\* Cache::bar: the last bar cached for the bar type.
Cache_bar(c, bar_type) ==
    IF c.bars[bar_type] = <<>> THEN None ELSE Some(Head(c.bars[bar_type]))

\* Whether a reader of the cache finds the record.
Cache_holds(c, data) ==
    CASE data.kind = "Quote" -> \E i \in DOMAIN c.quotes[data.instrument_id] :
                                    c.quotes[data.instrument_id][i] = data
      [] data.kind = "Trade" -> \E i \in DOMAIN c.trades[data.instrument_id] :
                                    c.trades[data.instrument_id][i] = data
      [] data.kind = "Bar"   -> \E i \in DOMAIN c.bars[data.bar_type] :
                                    c.bars[data.bar_type][i] = data
      [] data.kind = "InstrumentAny" -> data \in c.instruments
      [] OTHER -> FALSE

-----------------------------------------------------------------------------
(* The message bus and its switchboard *)

get_instrument_topic(instrument_id) == [channel |-> "instrument", key |-> instrument_id]
get_delta_topic(instrument_id) == [channel |-> "delta", key |-> instrument_id]
get_deltas_topic(instrument_id) == [channel |-> "deltas", key |-> instrument_id]
get_depth_topic(instrument_id) == [channel |-> "depth", key |-> instrument_id]
get_quote_topic(instrument_id) == [channel |-> "quote", key |-> instrument_id]
get_trade_topic(instrument_id) == [channel |-> "trade", key |-> instrument_id]
get_bar_topic(bar_type) == [channel |-> "bar", key |-> bar_type]

\* MessageBus::publish: the subscribers of the topic are invoked with the payload
\* during the call; cached is what one of them finds when it looks the payload
\* up in the cache as it stands at that moment (c).
MessageBus_publish(bus, topic, payload, c) ==
    LET handlers == {s.handler : s \in {x \in bus.subscriptions : x.topic = topic}}
        invoked == SetToSeq(handlers)
    IN  [bus EXCEPT
            !.published =
                Append(@, [topic |-> topic, payload |-> payload,
                           cached |-> Cache_holds(c, payload)]),
            !.delivered =
                @ \o [i \in DOMAIN invoked |->
                         [handler |-> invoked[i], topic |-> topic, payload |-> payload]]]

\* MessageBus::subscribe(topic, handler, None): a handler subscribed to the topic
\* already is not subscribed again. since is the number of publications made on
\* the bus before the subscription.
MessageBus_subscribe(bus, topic, handler) ==
    IF \E s \in bus.subscriptions : s.topic = topic /\ s.handler = handler
    THEN bus
    ELSE [bus EXCEPT !.subscriptions =
             @ \cup {[topic |-> topic, handler |-> handler, since |-> Len(bus.published)]}]

\* MessageBus::send_response: the handler registered for the correlation id of
\* the response is invoked with it during the call; seen is the cache as that
\* handler finds it at that moment (c).
MessageBus_send_response(bus, resp, c) ==
    [bus EXCEPT !.responses = Append(@, [resp |-> resp, seen |-> c])]

-----------------------------------------------------------------------------
(* Borrows of the shared cache and bus: Rc<RefCell<..>> *)

\* A borrow, a call or the release of a borrow on the cache or the bus.
Cell(event) == [uid |-> 0, method |-> event, arg |-> Unit]

\* self.cache.as_ref().borrow_mut().add_..(..): the borrow is a temporary of the
\* statement and is dropped at its end. n inserts under one borrow for the loop
\* of handle_instruments.
CacheWrite(n) ==
    <<Cell("cache.borrow_mut")>> \o [i \in 1..n |-> Cell("cache.add")]
    \o <<Cell("cache.release")>>

\* self.cache.as_ref().borrow().bar(..), dropped at the end of the if let.
CacheRead == <<Cell("cache.borrow"), Cell("cache.bar"), Cell("cache.release")>>

\* let mut msgbus = self.msgbus.borrow_mut(); .. msgbus.publish(..), dropped when
\* the handler returns.
BusPublish ==
    <<Cell("msgbus.borrow_mut"), Cell("msgbus.publish"), Cell("msgbus.release")>>

\* self.msgbus.as_ref().borrow().send_response(resp)
BusSend ==
    <<Cell("msgbus.borrow"), Cell("msgbus.send_response"), Cell("msgbus.release")>>

-----------------------------------------------------------------------------
(* Data handlers *)

handle_instrument(instrument, ok) ==
    LET cache1 == Cache_add_instrument(cache, instrument, ok)
    IN  /\ cache' = cache1
        /\ msgbus' = MessageBus_publish(msgbus, get_instrument_topic(instrument.instrument_id),
                                        instrument, cache1)
        /\ calls' = CacheWrite(1) \o BusPublish

handle_delta(delta) ==
    /\ msgbus' = MessageBus_publish(msgbus, get_delta_topic(delta.instrument_id), delta, cache)
    /\ calls' = BusPublish
    /\ UNCHANGED cache

handle_deltas(deltas) ==
    /\ msgbus' = MessageBus_publish(msgbus, get_deltas_topic(deltas.instrument_id), deltas, cache)
    /\ calls' = BusPublish
    /\ UNCHANGED cache

handle_depth10(depth) ==
    /\ msgbus' = MessageBus_publish(msgbus, get_depth_topic(depth.instrument_id), depth, cache)
    /\ calls' = BusPublish
    /\ UNCHANGED cache

\* handle_quote publishing before it inserts.
handle_quote_publish_first(quote, ok) ==
    /\ msgbus' = MessageBus_publish(msgbus, get_quote_topic(quote.instrument_id), quote, cache)
    /\ cache' = Cache_add_quote(cache, quote, ok)
    /\ calls' = BusPublish \o CacheWrite(1)

\* handle_quote keeping the borrow of the cache in a binding that lives to the
\* end of the handler, so that the bus is borrowed and published on under it.
handle_quote_nested(quote, ok) ==
    LET cache1 == Cache_add_quote(cache, quote, ok)
    IN  /\ cache' = cache1
        /\ msgbus' = MessageBus_publish(msgbus, get_quote_topic(quote.instrument_id),
                                        quote, cache1)
        /\ calls' = <<Cell("cache.borrow_mut"), Cell("cache.add")>> \o BusPublish
                     \o <<Cell("cache.release")>>

\* handle_quote publishing the quote the cache held last for the instrument again
\* before it publishes its argument.
handle_quote_replay(quote, ok) ==
    LET held == cache.quotes[quote.instrument_id]
        cache1 == Cache_add_quote(cache, quote, ok)
        topic == get_quote_topic(quote.instrument_id)
        bus1 == IF held = <<>> THEN msgbus
                ELSE MessageBus_publish(msgbus, topic, Head(held), cache1)
    IN  /\ cache' = cache1
        /\ msgbus' = MessageBus_publish(bus1, topic, quote, cache1)
        /\ calls' = CacheWrite(1) \o BusPublish

handle_quote(quote, ok) ==
    LET cache1 == Cache_add_quote(cache, quote, ok)
    IN  /\ cache' = cache1
        /\ msgbus' = MessageBus_publish(msgbus, get_quote_topic(quote.instrument_id),
                                        quote, cache1)
        /\ calls' = CacheWrite(1) \o BusPublish

\* handle_trade publishing the trade only when the cache took it.
handle_trade_gated(trade, ok) ==
    LET cache1 == Cache_add_trade(cache, trade, ok)
    IN  /\ cache' = cache1
        /\ msgbus' = IF ok
                      THEN MessageBus_publish(msgbus, get_trade_topic(trade.instrument_id),
                                              trade, cache1)
                      ELSE msgbus
        /\ calls' = IF ok THEN CacheWrite(1) \o BusPublish ELSE CacheWrite(1)

\* handle_trade publishing the latest trade of the cache in place of its argument.
handle_trade_publish_cached(trade, ok) ==
    LET cache1 == Cache_add_trade(cache, trade, ok)
        latest == IF cache1.trades[trade.instrument_id] = <<>> THEN trade
                  ELSE Head(cache1.trades[trade.instrument_id])
    IN  /\ cache' = cache1
        /\ msgbus' = MessageBus_publish(msgbus, get_trade_topic(trade.instrument_id),
                                        latest, cache1)
        /\ calls' = CacheWrite(1) \o BusPublish

\* handle_trade publishing the trade on the quote topic of its instrument.
handle_trade_on_quote_topic(trade, ok) ==
    LET cache1 == Cache_add_trade(cache, trade, ok)
    IN  /\ cache' = cache1
        /\ msgbus' = MessageBus_publish(msgbus, get_quote_topic(trade.instrument_id),
                                        trade, cache1)
        /\ calls' = CacheWrite(1) \o BusPublish

handle_trade(trade, ok) ==
    LET cache1 == Cache_add_trade(cache, trade, ok)
    IN  /\ cache' = cache1
        /\ msgbus' = MessageBus_publish(msgbus, get_trade_topic(trade.instrument_id),
                                        trade, cache1)
        /\ calls' = CacheWrite(1) \o BusPublish

\* Whether handle_bar returns early: `bar` is out of sequence.
OutOfSequence(bar) ==
    /\ config.validate_data_sequence
    /\ Cache_bar(cache, bar.bar_type) # None
    /\ LET last_bar == Cache_bar(cache, bar.bar_type)[1]
       IN  bar.ts_event < last_bar.ts_event \/ bar.ts_init < last_bar.ts_init

\* The read of the last bar handle_bar makes when the sequence is validated.
ValidationRead == IF config.validate_data_sequence THEN CacheRead ELSE <<>>

\* handle_bar comparing ts_event only.
handle_bar_ts_event_only(bar, ok) ==
    IF /\ config.validate_data_sequence
       /\ Cache_bar(cache, bar.bar_type) # None
       /\ bar.ts_event < Cache_bar(cache, bar.bar_type)[1].ts_event
    THEN /\ calls' = ValidationRead
         /\ UNCHANGED <<cache, msgbus>>
    ELSE LET cache1 == Cache_add_bar(cache, bar, ok)
         IN  /\ cache' = cache1
             /\ msgbus' = MessageBus_publish(msgbus, get_bar_topic(bar.bar_type), bar, cache1)
             /\ calls' = ValidationRead \o CacheWrite(1) \o BusPublish

handle_bar(bar, ok) ==
    IF OutOfSequence(bar)
    THEN /\ calls' = ValidationRead
         /\ UNCHANGED <<cache, msgbus>>
    ELSE LET cache1 == Cache_add_bar(cache, bar, ok)
         IN  /\ cache' = cache1
             /\ msgbus' = MessageBus_publish(msgbus, get_bar_topic(bar.bar_type), bar, cache1)
             /\ calls' = ValidationRead \o CacheWrite(1) \o BusPublish

-----------------------------------------------------------------------------
(* Data processor *)

\* ok: whether the cache insert of the handler, if it makes one, succeeds.
process(data, ok) ==
    /\ ~panicked
    /\ ops < MaxOps
    /\ ops' = ops + 1
    /\ last' = [op |-> "process", data |-> data, insert_ok |-> ok]
    /\ processed' = Append(processed, data)
    /\ \/ data.kind = "Delta" /\ handle_delta(data)
       \/ data.kind = "Deltas" /\ handle_deltas(data)
       \/ data.kind = "Depth10" /\ handle_depth10(data)
       \/ data.kind = "Quote" /\ handle_quote(data, ok)
       \/ data.kind = "Trade" /\ handle_trade(data, ok)
       \/ data.kind = "Bar" /\ handle_bar(data, ok)
    /\ UNCHANGED <<buffered_deltas_map, config, panicked>>
    /\ registry_unchanged

NextData ==
    \/ \E delta \in Deltas(ops + 1) : process(delta, TRUE)
    \/ \E deltas \in DeltasBatches(ops + 1) : process(deltas, TRUE)
    \/ \E depth \in Depths(ops + 1) : process(depth, TRUE)
    \/ \E quote \in Quotes(ops + 1), ok \in BOOLEAN : process(quote, ok)
    \/ \E trade \in Trades(ops + 1), ok \in BOOLEAN : process(trade, ok)
    \/ \E bar \in Bars(ops + 1), ok \in BOOLEAN : process(bar, ok)

\* DataEngine::new(clock, cache, msgbus, Some(config))
InitData == \E cfg \in Configs : InitWith(cfg)

\* The data processor, fed one event after the other.
SpecData == InitData /\ [][NextData]_vars

-----------------------------------------------------------------------------
(* Response handlers and the response router *)

RECURSIVE Cache_add_instruments(_, _, _)
\* The loop of handle_instruments: oks[i] is the outcome of the i-th insert.
Cache_add_instruments(c, instruments, oks) ==
    IF instruments = <<>> THEN c
    ELSE Cache_add_instruments(Cache_add_instrument(c, Head(instruments), Head(oks)),
                               Tail(instruments), Tail(oks))

handle_instruments(instruments, oks) == Cache_add_instruments(cache, instruments, oks)
handle_quotes(quotes, ok) == Cache_add_all(cache, quotes, ok)
handle_trades(trades, ok) == Cache_add_all(cache, trades, ok)
handle_bars(bars, ok) == Cache_add_all(cache, bars, ok)

KnownTypeNames == {"InstrumentAny", "QuoteTick", "TradeTick", "Bar"}

\* The element type of the vector a response of this type name is downcast to.
ElementKind(type_name) ==
    CASE type_name = "InstrumentAny" -> "InstrumentAny"
      [] type_name = "QuoteTick" -> "Quote"
      [] type_name = "TradeTick" -> "Trade"
      [] type_name = "Bar" -> "Bar"

\* The borrow of the cache the response handler of the type name takes: one for
\* the loop of handle_instruments, one for a bulk insert, none for another type.
ResponseWrite(resp) ==
    CASE resp.type_name = "InstrumentAny" -> CacheWrite(Len(resp.data))
      [] resp.type_name \in KnownTypeNames \ {"InstrumentAny"} -> CacheWrite(1)
      [] OTHER -> <<>>

\* response sending the response on the bus before it writes to the cache.
response_send_first(resp, oks) ==
    /\ ~panicked
    /\ ops < MaxOps
    /\ Len(msgbus.responses) < MaxResponses
    /\ ops' = ops + 1
    /\ last' = [op |-> "response", resp |-> resp, oks |-> oks]
    /\ IF resp.type_name \in KnownTypeNames /\ resp.data_kind # ElementKind(resp.type_name)
       THEN /\ panicked' = TRUE
            /\ calls' = <<>>
            /\ UNCHANGED <<cache, msgbus>>
       ELSE /\ panicked' = FALSE
            /\ calls' = BusSend \o ResponseWrite(resp)
            /\ msgbus' = MessageBus_send_response(msgbus, resp, cache)
            /\ cache' = CASE resp.type_name = "InstrumentAny" -> handle_instruments(resp.data, oks)
                          [] resp.type_name = "QuoteTick" -> handle_quotes(resp.data, oks[1])
                          [] resp.type_name = "TradeTick" -> handle_trades(resp.data, oks[1])
                          [] resp.type_name = "Bar" -> handle_bars(resp.data, oks[1])
                          [] OTHER -> cache
    /\ UNCHANGED <<buffered_deltas_map, config, processed>>
    /\ registry_unchanged

\* oks: the outcomes of the cache inserts the response leads to (one for each
\* instrument; oks[1] for a bulk insert of quotes, trades or bars).
response(resp, oks) ==
    /\ ~panicked
    /\ ops < MaxOps
    /\ Len(msgbus.responses) < MaxResponses
    /\ ops' = ops + 1
    /\ last' = [op |-> "response", resp |-> resp, oks |-> oks]
    /\ IF resp.type_name \in KnownTypeNames /\ resp.data_kind # ElementKind(resp.type_name)
       THEN \* Arc::downcast(..).expect("Invalid response data") panics
            /\ panicked' = TRUE
            /\ calls' = <<>>
            /\ UNCHANGED <<cache, msgbus>>
       ELSE /\ panicked' = FALSE
            /\ LET cache1 ==
                    CASE resp.type_name = "InstrumentAny" -> handle_instruments(resp.data, oks)
                      [] resp.type_name = "QuoteTick" -> handle_quotes(resp.data, oks[1])
                      [] resp.type_name = "TradeTick" -> handle_trades(resp.data, oks[1])
                      [] resp.type_name = "Bar" -> handle_bars(resp.data, oks[1])
                      [] OTHER -> cache
               IN  /\ cache' = cache1
                   /\ msgbus' = MessageBus_send_response(msgbus, resp, cache1)
                   /\ calls' = ResponseWrite(resp) \o BusSend
    /\ UNCHANGED <<buffered_deltas_map, config, processed>>
    /\ registry_unchanged

\* The vectors of at most MaxPayload items of a set.
Vectors(S) == UNION {[1..n -> S] : n \in 0..MaxPayload}

\* The bars of the responses of the model are of one bar type.
Items(kind, id) ==
    CASE kind = "InstrumentAny" -> Instruments(id)
      [] kind = "Quote" -> Quotes(id)
      [] kind = "Trade" -> Trades(id)
      [] kind = "Bar" -> {b \in Bars(id) : b.bar_type = BarType("AUDUSD.SIM")}

\* Responses whose payload is the vector their type name promises.
TypedResponses(type_name, id) ==
    [type_name : {type_name}, data_kind : {ElementKind(type_name)},
     data : Vectors(Items(ElementKind(type_name), id)), correlation_id : {id}]

\* Responses of a custom type name, here with quotes for a payload.
CustomResponses(id) ==
    [type_name : {"String"}, data_kind : {"Quote"}, data : Vectors(Quotes(id)),
     correlation_id : {id}]

\* Responses of a known type name whose payload is a vector of something else.
MisshapenResponses(id) ==
    [type_name : KnownTypeNames, data_kind : {"String"}, data : {<<>>}, correlation_id : {id}]

Outcomes(resp) ==
    IF resp.type_name = "InstrumentAny" /\ resp.data_kind = "InstrumentAny"
    THEN [1..Len(resp.data) -> BOOLEAN]
    ELSE IF resp.type_name \in KnownTypeNames /\ resp.data_kind # "String"
         THEN [1..1 -> BOOLEAN]
         ELSE {<<TRUE>>}

NextRouter ==
    \/ \E resp \in TypedResponses("InstrumentAny", ops + 1) :
          \E oks \in Outcomes(resp) : response(resp, oks)
    \/ \E resp \in TypedResponses("QuoteTick", ops + 1) :
          \E oks \in Outcomes(resp) : response(resp, oks)
    \/ \E resp \in TypedResponses("TradeTick", ops + 1) :
          \E oks \in Outcomes(resp) : response(resp, oks)
    \/ \E resp \in TypedResponses("Bar", ops + 1) :
          \E oks \in Outcomes(resp) : response(resp, oks)
    \/ \E resp \in CustomResponses(ops + 1) :
          \E oks \in Outcomes(resp) : response(resp, oks)
    \/ \E resp \in MisshapenResponses(ops + 1) :
          \E oks \in Outcomes(resp) : response(resp, oks)

\* The response router, handed one response after the other.
SpecRouter == InitData /\ [][NextRouter]_vars

NextResponse == NextData \/ NextRouter

\* The data processor and the response router, called in any order.
SpecResponse == InitData /\ [][NextResponse]_vars

-----------------------------------------------------------------------------
(* Properties of the registry and the command dispatcher *)

Registered(client_id) == IndexMapContains(clients, client_id)

Elements(seq) == {seq[i] : i \in DOMAIN seq}

\* C1: the registry holds at most one adapter per client_id, each under its own
\* client_id; after register_client(a, _) exactly one adapter is registered under
\* a's client_id, and it is a, also when that id was registered before.
C1_OneAdapterPerClientId ==
    /\ \A i, j \in DOMAIN clients : clients[i].k = clients[j].k => i = j
    /\ \A i \in DOMAIN clients : clients[i].v.client_id = clients[i].k
    /\ last.op = "register_client" =>
          /\ Cardinality({i \in DOMAIN clients : clients[i].k = last.client.client_id}) = 1
          /\ IndexMapGet(clients, last.client.client_id) = Some(last.client)

\* A second adapter was registered under a client_id that was registered already.
C1_DuplicateRegistered == last.op = "register_client" /\ last.present

\* C2: every entry of the routing map refers to a client_id that is in the
\* adapter registry (so after deregister_client(c) no entry points to c).
C2_RoutingRefersToRegistered ==
    \A i \in DOMAIN routing_map : Registered(routing_map[i].v)

\* The resolution C3 states: by client_id, else by the routing map, else the
\* default client, else none.
ResolveWithDefault(client_id, venue) ==
    IF Registered(client_id) THEN IndexMapGet(clients, client_id)
    ELSE IF IndexMapGet(routing_map, venue) # None
            /\ Registered(IndexMapGet(routing_map, venue)[1])
         THEN IndexMapGet(clients, IndexMapGet(routing_map, venue)[1])
         ELSE default_client

\* C3: get_client(c, v) is the adapter registered under c, else the adapter the
\* routing map resolves v to, else the default client, else none.
C3_GetClientFallsBackToDefault ==
    \A c \in ClientIds, v \in Venues : get_client(c, v) = ResolveWithDefault(c, v)

IsCommandStep == ops' = ops + 1 /\ last'.op \in {"execute", "send_subscription_command"}

Undeliverable(msg) == msg.kind # "SubscriptionCommand" \/ ~Registered(msg.client_id)

\* C4: a message that is not a SubscriptionCommand, or a command whose client_id
\* is not registered, is dropped by execute and by send_subscription_command: no
\* adapter is handed it and the engine's state is unchanged.
C4_UndeliverableCommandDropped ==
    [][(IsCommandStep /\ Undeliverable(last'.msg)) =>
          /\ calls' = <<>>
          /\ UNCHANGED <<clients, default_client, routing_map, buffered_deltas_map,
                         config, cache, msgbus, panicked>>]_vars

\* C5: after a Subscribe command for a registered client_id went through the
\* data_engine_execute endpoint, its key is in the matching subscription set of
\* the addressed adapter and in the matching subscribed_<category>() of the engine.
C5_SubscribeRecorded ==
    (/\ last.op = "execute"
     /\ last.msg.kind = "SubscriptionCommand"
     /\ last.msg.action = "Subscribe"
     /\ Registered(last.msg.client_id)) =>
        LET dt == last.msg.data_type
            adapter == IndexMapGet(clients, last.msg.client_id)[1]
        IN  CASE dt.type_name = "OrderBookDelta" ->
                    /\ dt.key \in adapter.subs["order_book_delta"]
                    /\ dt.key \in Elements(subscribed_order_book_deltas)
              [] dt.type_name = "OrderBookDeltas" ->
                    /\ dt.key \in adapter.subs["order_book_snapshot"]
                    /\ dt.key \in Elements(subscribed_order_book_snapshots)
              [] dt.type_name = "InstrumentAny" ->
                    /\ dt.key \in adapter.subs["instrument"]
                    /\ dt.key \in Elements(subscribed_instruments)
              [] dt.type_name = "QuoteTick" ->
                    /\ dt.key \in adapter.subs["quote_tick"]
                    /\ dt.key \in Elements(subscribed_quote_ticks)
              [] dt.type_name = "TradeTick" ->
                    /\ dt.key \in adapter.subs["trade_tick"]
                    /\ dt.key \in Elements(subscribed_trade_ticks)
              [] dt.type_name = "Bar" ->
                    /\ dt.key \in adapter.subs["bar"]
                    /\ dt.key \in Elements(subscribed_bars)
              [] OTHER ->
                    /\ dt \in adapter.subs["generic"]
                    /\ dt \in Elements(subscribed_custom_data)

\* A Subscribe for bars reached the second of two registered adapters.
C5_SubscribedSecondAdapter ==
    /\ last.op = "execute"
    /\ last.msg.kind = "SubscriptionCommand"
    /\ last.msg.action = "Subscribe"
    /\ last.msg.data_type.type_name = "Bar"
    /\ Len(clients) = 2
    /\ clients[2].k = last.msg.client_id
    /\ Len(calls) = 1

-----------------------------------------------------------------------------
(* Properties of the data processor and the response router *)

IsProcessStep == ops' = ops + 1 /\ last'.op = "process"

\* What the last publish on the bus carried.
LastPublished == msgbus.published[Len(msgbus.published)]

\* The step published exactly this payload on this topic, and nothing else.
PublishedOnly(topic, payload) ==
    /\ Len(msgbus'.published) = Len(msgbus.published) + 1
    /\ SubSeq(msgbus'.published, 1, Len(msgbus.published)) = msgbus.published
    /\ msgbus'.published[Len(msgbus'.published)].topic = topic
    /\ msgbus'.published[Len(msgbus'.published)].payload = payload

\* C6: with buffer_deltas, a Delta without F_LAST is buffered and nothing is
\* published; a Delta with F_LAST publishes one Deltas event holding the buffered
\* deltas and itself, in order, and leaves the buffer of its instrument empty.
C6_BufferedDeltasFlushedOnLast ==
    [][(IsProcessStep /\ config.buffer_deltas /\ last'.data.kind = "Delta") =>
          LET delta == last'.data
              I == delta.instrument_id
          IN  IF "F_LAST" \notin delta.flags
              THEN /\ msgbus'.published = msgbus.published
                   /\ buffered_deltas_map'[I] = Append(buffered_deltas_map[I], delta)
              ELSE /\ Len(msgbus'.published) = Len(msgbus.published) + 1
                   /\ SubSeq(msgbus'.published, 1, Len(msgbus.published)) = msgbus.published
                   /\ msgbus'.published[Len(msgbus'.published)].topic = get_deltas_topic(I)
                   /\ msgbus'.published[Len(msgbus'.published)].payload.kind = "Deltas"
                   /\ msgbus'.published[Len(msgbus'.published)].payload.deltas
                          = Append(buffered_deltas_map[I], delta)
                   /\ buffered_deltas_map'[I] = <<>>]_vars

\* Whether b regresses against the last cached bar of its bar type.
Regresses(b) ==
    /\ Cache_bar(cache, b.bar_type) # None
    /\ \/ b.ts_event < Cache_bar(cache, b.bar_type)[1].ts_event
       \/ b.ts_init < Cache_bar(cache, b.bar_type)[1].ts_init

\* C7 as stated: with validate_data_sequence, a bar that regresses against the
\* last cached bar l of its bar type is dropped (cache and bus unchanged, the last
\* cached bar stays l); any other bar is inserted into the cache and published on
\* the topic of its bar type.
C7_BarInsertedOrDropped ==
    [][(IsProcessStep /\ config.validate_data_sequence /\ last'.data.kind = "Bar") =>
          LET b == last'.data
          IN  IF Regresses(b)
              THEN /\ cache' = cache
                   /\ msgbus' = msgbus
              ELSE /\ Cache_bar(cache', b.bar_type) = Some(b)
                   /\ PublishedOnly(get_bar_topic(b.bar_type), b)]_vars

\* C7 as amended: a bar that regresses is dropped; any other bar is published on
\* the topic of its bar type and handed to the cache insert, after which it is the
\* last cached bar of its bar type unless the insert returned an error, which
\* leaves the cache as it was.
C7_BarPublishedOrDropped ==
    [][(IsProcessStep /\ config.validate_data_sequence /\ last'.data.kind = "Bar") =>
          LET b == last'.data
          IN  IF Regresses(b)
              THEN /\ cache' = cache
                   /\ msgbus' = msgbus
              ELSE /\ PublishedOnly(get_bar_topic(b.bar_type), b)
                   /\ IF last'.insert_ok
                      THEN /\ Cache_bar(cache', b.bar_type) = Some(b)
                           /\ cache' = [cache EXCEPT !.bars[b.bar_type] = <<b>> \o @]
                      ELSE cache' = cache]_vars

\* A bar was dropped for its ts_init alone: its ts_event does not regress.
C7_DroppedForTsInit ==
    /\ last.op = "process"
    /\ last.data.kind = "Bar"
    /\ config.validate_data_sequence
    /\ Cache_bar(cache, last.data.bar_type) # None
    /\ last.data.ts_event >= Cache_bar(cache, last.data.bar_type)[1].ts_event
    /\ last.data.ts_init < Cache_bar(cache, last.data.bar_type)[1].ts_init
    /\ ~Cache_holds(cache, last.data)
    /\ msgbus.published # <<>>
    /\ LastPublished.payload # last.data

\* C8: with validate_data_sequence, every bar in the cache has ts_event and
\* ts_init >= those of the bar that was the last cached bar of its bar type when
\* it was inserted (the bar right behind it in the deque).
C8_CachedBarsInSequence ==
    config.validate_data_sequence =>
        \A bt \in BarTypes : \A k \in 1..(Len(cache.bars[bt]) - 1) :
            /\ cache.bars[bt][k].ts_event >= cache.bars[bt][k + 1].ts_event
            /\ cache.bars[bt][k].ts_init >= cache.bars[bt][k + 1].ts_init

IsQuoteOrTrade == last.op = "process" /\ last.data.kind \in {"Quote", "Trade"}

TickTopic(data) ==
    IF data.kind = "Quote" THEN get_quote_topic(data.instrument_id)
    ELSE get_trade_topic(data.instrument_id)

\* C9 as stated: a Quote or Trade passed to process is published on its topic,
\* and a subscriber invoked by that publish finds the record in the cache.
C9_CachedWhenPublished ==
    IsQuoteOrTrade =>
        /\ msgbus.published # <<>>
        /\ LastPublished.topic = TickTopic(last.data)
        /\ LastPublished.payload = last.data
        /\ LastPublished.cached

\* C9 as amended: a Quote or Trade passed to process is published on its topic
\* after the cache insert was made: a subscriber invoked by that publish finds the
\* record in the cache if and only if the insert did not return an error.
C9_InsertBeforePublish ==
    IsQuoteOrTrade =>
        /\ msgbus.published # <<>>
        /\ LastPublished.topic = TickTopic(last.data)
        /\ LastPublished.payload = last.data
        /\ LastPublished.cached <=> last.insert_ok
        /\ Cache_holds(cache, last.data) <=> last.insert_ok

\* A quote was inserted, and the subscribers of its publish found it in the cache.
C9_QuoteCachedThenPublished ==
    /\ IsQuoteOrTrade
    /\ last.data.kind = "Quote"
    /\ last.insert_ok
    /\ LastPublished.payload = last.data
    /\ LastPublished.cached

RECURSIVE IsSubsequence(_, _)
\* Whether a is b with some of its elements left out.
IsSubsequence(a, b) ==
    IF a = <<>> THEN TRUE
    ELSE IF b = <<>> THEN FALSE
    ELSE IF Head(a) = Head(b) THEN IsSubsequence(Tail(a), Tail(b))
    ELSE IsSubsequence(a, Tail(b))

Reverse(seq) == [i \in DOMAIN seq |-> seq[Len(seq) + 1 - i]]

\* The instrument a topic belongs to.
TopicInstrument(topic) ==
    IF topic.channel = "bar" THEN topic.key.instrument_id ELSE topic.key

\* The events of instrument I passed to process, in the order of the calls.
ProcessedOf(I) == SelectSeq(processed, LAMBDA e : InstrumentOf(e) = I)

\* The payloads published on the topics of instrument I, in the order published.
PublishedOf(I) ==
    LET on == SelectSeq(msgbus.published, LAMBDA p : TopicInstrument(p.topic) = I)
    IN  [i \in DOMAIN on |-> on[i].payload]

\* C10: for every instrument I, the events published on I's topics, and the
\* quotes, the trades and the bars of I written to the cache (oldest first), are
\* the events of I passed to process, some left out, in the order of the calls.
C10_OrderPreserved ==
    \A I \in InstrumentIds :
        /\ IsSubsequence(PublishedOf(I), ProcessedOf(I))
        /\ IsSubsequence(Reverse(cache.quotes[I]), ProcessedOf(I))
        /\ IsSubsequence(Reverse(cache.trades[I]), ProcessedOf(I))
        /\ IsSubsequence(Reverse(cache.bars[BarType(I)]), ProcessedOf(I))

\* Two trades of one instrument were processed, published and cached.
C10_TwoTradesOfOneInstrument ==
    \E I \in InstrumentIds :
        /\ Len(cache.trades[I]) = 2
        /\ Len(PublishedOf(I)) = 2
        /\ PublishedOf(I) = Reverse(cache.trades[I])

\* The topic of an event's own kind and key.
OwnTopic(data) ==
    CASE data.kind = "Delta" -> get_delta_topic(data.instrument_id)
      [] data.kind = "Deltas" -> get_deltas_topic(data.instrument_id)
      [] data.kind = "Depth10" -> get_depth_topic(data.instrument_id)
      [] data.kind = "Quote" -> get_quote_topic(data.instrument_id)
      [] data.kind = "Trade" -> get_trade_topic(data.instrument_id)
      [] data.kind = "Bar" -> get_bar_topic(data.bar_type)

\* C11: process returns normally for every event, whatever the cache holds and
\* whatever the outcome of the cache insert, and publishes the event exactly once
\* on the topic of its own kind and key, unless the event is a Bar dropped by the
\* sequence validation (no Delta is ever held back: each is published at once).
C11_ProcessPublishesOnce ==
    [][IsProcessStep =>
          LET d == last'.data
          IN  /\ ~panicked'
              /\ IF d.kind = "Bar" /\ config.validate_data_sequence /\ Regresses(d)
                 THEN msgbus' = msgbus
                 ELSE PublishedOnly(OwnTopic(d), d)]_vars

\* A trade whose cache insert returned an error was published all the same, as
\* the second event of its instrument.
C11_PublishedAfterInsertError ==
    /\ last.op = "process"
    /\ last.data.kind = "Trade"
    /\ ~last.insert_ok
    /\ ~panicked
    /\ ~Cache_holds(cache, last.data)
    /\ Len(msgbus.published) = 2
    /\ LastPublished.topic = get_trade_topic(last.data.instrument_id)
    /\ LastPublished.payload = last.data

IsResponseStep == ops' = ops + 1 /\ last'.op = "response"

\* What the last send_response on the bus carried.
LastSent == msgbus.responses[Len(msgbus.responses)]

\* C12: response sends every response on the bus exactly once, whatever its
\* type name and whatever the outcome of the cache inserts; a response of a type
\* name other than InstrumentAny, QuoteTick, TradeTick, Bar leaves the cache
\* unchanged.
C12_ResponseSentOnce ==
    [][IsResponseStep =>
          /\ Len(msgbus'.responses) = Len(msgbus.responses) + 1
          /\ SubSeq(msgbus'.responses, 1, Len(msgbus.responses)) = msgbus.responses
          /\ msgbus'.responses[Len(msgbus'.responses)].resp = last'.resp
          /\ last'.resp.type_name \notin KnownTypeNames => cache' = cache]_vars

\* Whether the cache c holds the items of the response that its inserts took.
HoldsInserted(c, resp, oks) ==
    \A i \in DOMAIN resp.data :
        (IF resp.type_name = "InstrumentAny" THEN oks[i] ELSE oks[1])
            => Cache_holds(c, resp.data[i])

\* C13: when a response of a known type name is sent on the bus, the cache
\* writes of its payload are complete: the handler the send invokes finds the
\* cache as response leaves it, with every item the cache took.
C13_CacheWrittenBeforeSend ==
    [][(/\ IsResponseStep
        /\ last'.resp.type_name \in KnownTypeNames
        /\ msgbus'.responses # msgbus.responses) =>
          LET sent == msgbus'.responses[Len(msgbus'.responses)]
          IN  /\ sent.resp = last'.resp
              /\ sent.seen = cache'
              /\ HoldsInserted(sent.seen, last'.resp, last'.oks)]_vars

\* A response of bars was sent after its bar was written to the cache.
C13_BarWrittenThenSent ==
    /\ last.op = "response"
    /\ last.resp.type_name = "Bar"
    /\ Len(last.resp.data) >= 1
    /\ last.oks[1]
    /\ msgbus.responses # <<>>
    /\ LastSent.resp = last.resp
    /\ Cache_holds(LastSent.seen, last.resp.data[1])

\* The payload of the response is not a vector of what its type name promises.
Misshapen(resp) ==
    resp.type_name \in KnownTypeNames /\ resp.data_kind # ElementKind(resp.type_name)

\* C14: a response of a known type name whose payload is not a vector of the
\* matching element type is dropped: the engine does not abort, the cache is
\* unchanged and the engine goes on accepting operations.
C14_ShapeErrorDropped ==
    [][(IsResponseStep /\ Misshapen(last'.resp)) =>
          /\ ~panicked'
          /\ cache' = cache]_vars

-----------------------------------------------------------------------------
(* Further properties of the registry and the request router *)

IsRequestStep == ops' = ops + 1 /\ last'.op = "request"

Without(ids, c) == SelectSeq(ids, LAMBDA k : k # c)

\* C16 as stated: registed_clients lists each registered client id once, and a
\* precedes b in it iff the registration that installed the adapter a has now
\* came before the one that installed the adapter b has now (adapters are
\* numbered in the order they were handed to the engine).
C16_InInstallationOrder ==
    /\ \A i, j \in DOMAIN registed_clients :
          registed_clients[i] = registed_clients[j] => i = j
    /\ \A i, j \in DOMAIN clients :
          i < j <=> clients[i].v.uid < clients[j].v.uid

\* C16 as amended: registed_clients starts empty; registering an adapter whose
\* client id is not listed appends the id, registering one whose client id is
\* listed leaves the list as it is (the id keeps its place), deregistering takes
\* the id out and keeps the order of the others, and nothing else changes the
\* list: it holds each registered id once, in the order in which the ids were
\* first registered since they were last deregistered.
C16_InFirstRegistrationOrder ==
    /\ registed_clients = <<>>
    /\ [][/\ \A i, j \in DOMAIN registed_clients' :
               registed_clients'[i] = registed_clients'[j] => i = j
          /\ registed_clients' =
                IF last'.op = "register_client" /\ adapters_made' # adapters_made
                THEN IF Registered(last'.client.client_id)
                     THEN registed_clients
                     ELSE Append(registed_clients, last'.client.client_id)
                ELSE IF last'.op = "deregister_client"
                     THEN Without(registed_clients, last'.client_id)
                     ELSE registed_clients]_vars

\* The first of two registered client ids was registered again: it is still
\* listed first, with the adapter that was installed last.
C16_ReRegisteredKeepsPlace ==
    /\ last.op = "register_client"
    /\ last.present
    /\ Len(clients) = 2
    /\ registed_clients[1] = last.client.client_id
    /\ clients[1].v = last.client
    /\ clients[1].v.uid > clients[2].v.uid

\* C17 as stated: register_client(adapter of c, routing) followed by
\* deregister_client(c) leaves registed_clients as it was before the registration.
C17_RoundTrip ==
    (last.op = "deregister_client" /\ last.undoes # None) =>
        registed_clients = last.undoes[1].before

\* C17 as amended: the round trip leaves registed_clients as it was when c was
\* not registered before; when c was registered before, it leaves the list
\* without c.
C17_RoundTripOfNewClient ==
    (last.op = "deregister_client" /\ last.undoes # None) =>
        registed_clients = IF last.undoes[1].present
                           THEN Without(last.undoes[1].before, last.client_id)
                           ELSE last.undoes[1].before

\* A client id was registered next to another and deregistered at once.
C17_NewClientRoundTrip ==
    /\ last.op = "deregister_client"
    /\ last.undoes # None
    /\ ~last.undoes[1].present
    /\ last.undoes[1].before # <<>>
    /\ registed_clients = last.undoes[1].before

\* C18: deregister_client(c) for a c that is not registered raises no error and
\* changes nothing of the engine (registry, adapters and their subscription
\* sets, routing map, default client); after deregister_client(c), c is not
\* registered, so a second deregister_client(c) is such a call.
C18_DeregisterUnknownIsNoOp ==
    [][/\ (last'.op = "deregister_client" /\ ~Registered(last'.client_id)) =>
             /\ ~panicked'
             /\ UNCHANGED <<clients, default_client, routing_map, buffered_deltas_map,
                            config, cache, msgbus, panicked>>
       /\ last'.op = "deregister_client" =>
             ~IndexMapContains(clients', last'.client_id)]_vars

\* A client id that is not registered was deregistered on an engine that holds
\* an adapter, a routing entry and a default client.
C18_UnknownDeregistered ==
    /\ last.op = "deregister_client"
    /\ ~last.present
    /\ clients # <<>>
    /\ routing_map # <<>>
    /\ default_client # None

\* A client id no adapter of the model is made with.
OtherClientId == "C0"

\* C19: after register_client(adapter, routing = v), get_client(c, v) for a c
\* that is not registered is that adapter, also when v was routed to another
\* client before; get_client(c, w) for a venue w with no routing entry is none,
\* whether a default client is there or not.
C19_RoutingFallback ==
    /\ (last.op = "register_client" /\ last.routing # None) =>
          \A c \in ClientIds \cup {OtherClientId} :
              ~Registered(c) => get_client(c, last.routing[1]) = Some(last.client)
    /\ \A c \in ClientIds \cup {OtherClientId}, w \in Venues :
          (~Registered(c) /\ ~IndexMapContains(routing_map, w)) => get_client(c, w) = None

\* A second adapter was registered with the routing venue of the first: the
\* venue resolves to the second, and the other venue to none.
C19_RoutingOverwritten ==
    /\ last.op = "register_client"
    /\ last.routing # None
    /\ last.routed # None
    /\ last.routed[1] # last.client.client_id
    /\ Len(clients) = 2
    /\ Len(routing_map) = 1
    /\ clients[2].v = last.client
    /\ get_client(OtherClientId, last.routing[1]) = Some(clients[2].v)
    /\ \E w \in Venues : get_client(OtherClientId, w) = None

\* How many times e occurs in seq.
Count(seq, e) == Len(SelectSeq(seq, LAMBDA x : x = e))

\* The subscribed_<category>() getter of a category.
Subscribed(category) ==
    CASE category = "generic" -> subscribed_custom_data
      [] category = "instrument" -> subscribed_instruments
      [] category = "order_book_delta" -> subscribed_order_book_deltas
      [] category = "order_book_snapshot" -> subscribed_order_book_snapshots
      [] category = "quote_tick" -> subscribed_quote_ticks
      [] category = "trade_tick" -> subscribed_trade_ticks
      [] category = "bar" -> subscribed_bars
      [] category = "instrument_status" -> subscribed_instrument_status
      [] category = "instrument_close" -> subscribed_instrument_close

\* What an adapter can hold in its subscription set of a category.
SubscriptionKeys(category) ==
    {KeyOf(dt) : dt \in {d \in DataTypes : CategoryOf(d) = category}}

\* C20: for each of the nine categories, subscribed_<category>() holds an entity
\* as many times as there are adapters in the registry that hold it in their set
\* of that category, and nothing else; with no adapter in the registry it is the
\* empty sequence.
C20_SubscribedIsConcatenation ==
    \A category \in Categories :
        /\ \A e \in SubscriptionKeys(category) :
              Count(Subscribed(category), e) =
                  Cardinality({i \in DOMAIN clients : e \in clients[i].v.subs[category]})
        /\ Elements(Subscribed(category)) \subseteq SubscriptionKeys(category)
        /\ clients = <<>> => Subscribed(category) = <<>>

\* Two registered adapters hold the same bar type, which subscribed_bars lists
\* twice, and one of them alone holds a quote subscription, listed once.
C20_EntityHeldTwice ==
    /\ Len(clients) = 2
    /\ \E b \in BarTypes :
          /\ b \in clients[1].v.subs["bar"]
          /\ b \in clients[2].v.subs["bar"]
          /\ Count(subscribed_bars, b) = 2
    /\ Len(subscribed_quote_ticks) = 1

-----------------------------------------------------------------------------
(* Lifecycle *)

\* The calls made on the adapters from the last registered to the first.
ForEachClientReversed(method) ==
    [i \in DOMAIN clients |-> Call(clients[Len(clients) + 1 - i].v, method, Unit)]

\* clients.values().for_each(|client| client.method()): one call on each adapter
\* of the registry, in the order of the registry.
ForEachClient(method) == [i \in DOMAIN clients |-> Call(clients[i].v, method, Unit)]

\* self.clock.cancel_timers()
Clock_cancel_timers == [uid |-> 0, method |-> "clock.cancel_timers", arg |-> Unit]

lifecycle_unchanged ==
    /\ UNCHANGED <<clients, default_client, routing_map, adapters_made, ops, test_msgbus>>
    /\ UNCHANGED <<buffered_deltas_map, config, cache, msgbus, panicked, processed>>

\* start taking &self: the owner keeps the engine.
start_borrowed ==
    /\ calls' = ForEachClient("start")
    /\ consumed' = consumed
    /\ last' = [op |-> "start"]
    /\ lifecycle_unchanged

\* start, stop, reset and dispose take self: the engine is moved into the call
\* and dropped when it returns.
start ==
    /\ calls' = ForEachClient("start")
    /\ consumed' = TRUE
    /\ last' = [op |-> "start"]
    /\ lifecycle_unchanged

stop ==
    /\ calls' = ForEachClient("stop")
    /\ consumed' = TRUE
    /\ last' = [op |-> "stop"]
    /\ lifecycle_unchanged

reset ==
    /\ calls' = ForEachClient("reset")
    /\ consumed' = TRUE
    /\ last' = [op |-> "reset"]
    /\ lifecycle_unchanged

dispose ==
    /\ calls' = Append(ForEachClient("dispose"), Clock_cancel_timers)
    /\ consumed' = TRUE
    /\ last' = [op |-> "dispose"]
    /\ lifecycle_unchanged

\* connect and disconnect are todo!(): the call panics.
connect ==
    /\ panicked' = TRUE
    /\ last' = [op |-> "connect"]
    /\ calls' = <<>>
    /\ UNCHANGED <<clients, default_client, routing_map, adapters_made, ops>>
    /\ UNCHANGED <<buffered_deltas_map, config, cache, msgbus, processed>>
    /\ owner_unchanged

disconnect ==
    /\ panicked' = TRUE
    /\ last' = [op |-> "disconnect"]
    /\ calls' = <<>>
    /\ UNCHANGED <<clients, default_client, routing_map, adapters_made, ops>>
    /\ UNCHANGED <<buffered_deltas_map, config, cache, msgbus, processed>>
    /\ owner_unchanged

\* DataClientAdapter::is_connected
Adapter_is_connected(adapter) == adapter.connected

check_connected == \A i \in DOMAIN clients : Adapter_is_connected(clients[i].v)

\* check_disconnected as the negation of check_connected.
check_disconnected_not_connected == ~check_connected

check_disconnected == \A i \in DOMAIN clients : ~Adapter_is_connected(clients[i].v)

-----------------------------------------------------------------------------
(* The whole engine, driven by its owner *)

\* An adapter whose client has connected.
Adapter_connected(adapter) == [adapter EXCEPT !.connected = TRUE]

\* The adapters handed to the engine: as constructed, or connected and with one
\* bar subscription.
LiveAdapters ==
    NewAdapters
    \cup UNION {{Adapter_connected(Adapter_execute(a, c)) :
                    c \in {p \in PriorCommands(a) : p.data_type.type_name = "Bar"}} :
                a \in NewAdapters}

BarCommands ==
    {m \in Messages : m.kind = "SubscriptionCommand" /\ m.data_type.type_name = "Bar"}

\* The commands and requests of the adapters' venue.
VenueCommands == {c \in RoutedCommands : c.venue = AdapterVenue}
VenueRequests == {r \in DataRequests : r.venue = AdapterVenue}

EmptyResponses(id) == {r \in CustomResponses(id) : r.data = <<>>}

\* The owner can call the engine while it holds it and no call has panicked.
Usable == ~consumed /\ ~panicked

NextEngine ==
    \/ Usable /\ \E client \in LiveAdapters : register_client(client, None)
    \/ Usable /\ \E client_id \in ClientIds : deregister_client(client_id)
    \/ Usable /\ \E msg \in BarCommands : SubscriptionCommandHandler_handle(msg)
    \/ Usable /\ \E message \in VenueCommands : send_subscription_command(message)
    \/ Usable /\ \E req \in VenueRequests : request(req)
    \/ Usable /\ \E quote \in Quotes(ops + 1) : process(quote, TRUE)
    \/ Usable /\ \E resp \in EmptyResponses(ops + 1) : response(resp, <<TRUE>>)
    \/ Usable /\ start
    \/ Usable /\ stop
    \/ Usable /\ reset
    \/ Usable /\ dispose
    \/ Usable /\ connect
    \/ Usable /\ disconnect

SpecEngine == Init /\ [][NextEngine]_vars

-----------------------------------------------------------------------------
(* Properties of the whole engine *)

\* C21: the subscription sets of an adapter of the registry change only in a step
\* that executes a SubscriptionCommand addressed to that adapter's client_id:
\* every other operation (process, request, response, a command addressed to
\* another client_id, a registration or removal of another adapter, a lifecycle
\* call) leaves them as they were.
C21_SubscriptionsChangeByOwnCommand ==
    [][\A i \in DOMAIN clients : \A j \in DOMAIN clients' :
          (/\ clients[i].v.uid = clients'[j].v.uid
           /\ clients[i].v.subs # clients'[j].v.subs)
          => /\ last'.op = "execute"
             /\ last'.msg.kind = "SubscriptionCommand"
             /\ last'.msg.client_id = clients[i].v.client_id]_vars

\* A command was executed by its adapter while another adapter held subscriptions.
C21_CommandBesideSubscribedAdapter ==
    /\ last.op = "execute"
    /\ Len(calls) = 1
    /\ \E i \in DOMAIN clients :
          /\ clients[i].k # last.msg.client_id
          /\ clients[i].v.subs["bar"] # {}

\* How many adapters of the registry report connected.
ConnectedCount == Cardinality({i \in DOMAIN clients : Adapter_is_connected(clients[i].v)})

\* C22: check_connected() is true iff every registered adapter reports connected,
\* check_disconnected() iff none does; with an empty registry both are true, with
\* an adapter registered they are never both true.
C22_ConnectionChecks ==
    /\ check_connected <=> ConnectedCount = Len(clients)
    /\ check_disconnected <=> ConnectedCount = 0
    /\ clients = <<>> => check_connected /\ check_disconnected
    /\ clients # <<>> => ~(check_connected /\ check_disconnected)

\* A connected adapter and one that is not are registered: both checks are false.
C22_MixedRegistry ==
    /\ \E i, j \in DOMAIN clients :
          Adapter_is_connected(clients[i].v) /\ ~Adapter_is_connected(clients[j].v)
    /\ ~check_connected
    /\ ~check_disconnected

\* The calls of the last operation are `method`, once on each adapter of the
\* registry, in registration order.
OncePerAdapterInOrder(made, method) ==
    /\ Len(made) = Len(clients)
    /\ \A i \in DOMAIN clients :
          /\ made[i].uid = clients[i].v.uid
          /\ made[i].method = method

IsConnectStep == ~panicked /\ last'.op \in {"connect", "disconnect"}

\* C24: connect() and disconnect() are no-ops: each completes normally and
\* leaves the engine, its adapters, the cache and the bus unchanged.
C24_ConnectIsNoOp ==
    [][IsConnectStep =>
          /\ ~panicked'
          /\ UNCHANGED <<clients, default_client, routing_map, buffered_deltas_map,
                         config, cache, msgbus>>]_vars

LifecycleOps == {"start", "stop", "reset", "dispose"}

\* C30: start, stop, reset and dispose are terminal: once one of them was called
\* no further operation is applied to the engine, neither process, execute,
\* request, response or register_client nor a second lifecycle call.
C30_LifecycleIsTerminal == [][last.op \notin LifecycleOps]_vars

\* An engine that had adapters registered and data processed was stopped.
C30_StoppedAfterUse ==
    /\ last.op = "stop"
    /\ consumed
    /\ clients # <<>>
    /\ processed # <<>>

-----------------------------------------------------------------------------
(* Further properties of the client lookup *)

\* C29: an adapter returned by get_client(c, v) is in the registry at that
\* moment, so never one that was deregistered; when c is not registered, a
\* routing entry for v whose client is not registered resolves to none, and to
\* the adapter registered under that client_id as soon as there is one.
C29_GetClientReturnsRegistered ==
    \A c \in ClientIds \cup {OtherClientId}, v \in Venues :
        LET found == get_client(c, v)
            routed == IndexMapGet(routing_map, v)
        IN  /\ found # None => \E i \in DOMAIN clients : clients[i].v = found[1]
            /\ (~Registered(c) /\ routed # None) =>
                  /\ ~Registered(routed[1]) => found = None
                  /\ Registered(routed[1]) =>
                        /\ found # None
                        /\ found[1].client_id = routed[1]

\* A routing entry of a deregistered client resolves again: an adapter of that
\* client_id was just registered without a routing argument.
C29_StaleRouteResolvesAgain ==
    /\ last.op = "register_client"
    /\ last.routing = None
    /\ ~last.present
    /\ IndexMapGet(routing_map, AdapterVenue) = Some(last.client.client_id)
    /\ get_client(OtherClientId, AdapterVenue) = Some(last.client)

-----------------------------------------------------------------------------
(* The data handlers and the response handlers, on the events of one instrument *)

OneInstrument(S) == {d \in S : InstrumentOf(d) = "AUDUSD.SIM"}

OneInstrumentResponses(S) ==
    {r \in S : \A i \in DOMAIN r.data : r.data[i].instrument_id = "AUDUSD.SIM"}

NextHandlers ==
    \/ \E data \in OneInstrument(Deltas(ops + 1) \cup DeltasBatches(ops + 1)
                                  \cup Depths(ops + 1)) : process(data, TRUE)
    \/ \E data \in OneInstrument(Quotes(ops + 1) \cup Trades(ops + 1)), ok \in BOOLEAN :
          process(data, ok)
    \/ \E bar \in OneInstrument(Bars(ops + 1)), ok \in BOOLEAN : process(bar, ok)
    \/ \E resp \in OneInstrumentResponses(TypedResponses("InstrumentAny", ops + 1)) :
          \E oks \in Outcomes(resp) : response(resp, oks)
    \/ \E resp \in OneInstrumentResponses(TypedResponses("QuoteTick", ops + 1)) :
          \E oks \in Outcomes(resp) : response(resp, oks)
    \/ \E resp \in EmptyResponses(ops + 1) : response(resp, <<TRUE>>)

SpecHandlers == InitData /\ [][NextHandlers]_vars

-----------------------------------------------------------------------------
(* Properties of the borrows *)

CacheBorrows == {"cache.borrow", "cache.borrow_mut"}
BusEvents == {"msgbus.borrow", "msgbus.borrow_mut", "msgbus.publish", "msgbus.send_response"}

\* How many borrows of the cache are open before the k-th call of the operation.
CacheBorrowsOpen(k) ==
    Cardinality({i \in 1..(k - 1) : calls[i].method \in CacheBorrows})
    - Cardinality({i \in 1..(k - 1) : calls[i].method = "cache.release"})

\* C25: the engine never holds a borrow of the cache while it borrows the bus,
\* publishes or sends on it: in every data handler and in response the borrow
\* taken for the validation read or for the insert is released before the bus
\* is borrowed.
C25_NoBusUnderCacheBorrow ==
    /\ \A k \in DOMAIN calls :
          calls[k].method \in BusEvents => CacheBorrowsOpen(k) = 0
    /\ CacheBorrowsOpen(Len(calls) + 1) = 0

\* A bar was validated against the cache, inserted and published: two borrows of
\* the cache were taken and released before the bus was borrowed.
C25_BarReadInsertedPublished ==
    /\ last.op = "process"
    /\ last.data.kind = "Bar"
    /\ Cardinality({k \in DOMAIN calls : calls[k].method \in CacheBorrows}) = 2
    /\ \E k \in DOMAIN calls : calls[k].method = "msgbus.publish"

-----------------------------------------------------------------------------
(* The bus and its subscribers *)

MaxSubscriptions == 2

Handlers == {"h1", "h2"}

\* The topics the handlers of the model subscribe to.
BusTopics == {get_quote_topic("AUDUSD.SIM"), get_trade_topic("AUDUSD.SIM")}

SubscriptionsMade == Cardinality(msgbus.subscriptions) + Cardinality(test_msgbus.subscriptions)

\* msgbus.borrow_mut().subscribe(topic, handler, None) on the bus the engine holds,
\* by any holder of a handle of that bus.
subscribe(topic, handler) ==
    /\ SubscriptionsMade < MaxSubscriptions
    /\ msgbus' = MessageBus_subscribe(msgbus, topic, handler)
    /\ last' = [op |-> "subscribe", topic |-> topic, handler |-> handler]
    /\ calls' = <<>>
    /\ UNCHANGED <<buffered_deltas_map, config, cache, panicked, processed, ops>>
    /\ registry_unchanged

\* The same on a bus the engine holds no handle of.
subscribe_other(topic, handler) ==
    /\ SubscriptionsMade < MaxSubscriptions
    /\ test_msgbus' = MessageBus_subscribe(test_msgbus, topic, handler)
    /\ last' = [op |-> "subscribe_other", topic |-> topic, handler |-> handler]
    /\ calls' = <<>>
    /\ UNCHANGED <<buffered_deltas_map, config, cache, msgbus, panicked, processed, ops>>
    /\ UNCHANGED <<clients, default_client, routing_map, adapters_made, consumed>>

NextBus ==
    \/ \E topic \in BusTopics, handler \in Handlers : subscribe(topic, handler)
    \/ \E topic \in BusTopics, handler \in Handlers : subscribe_other(topic, handler)
    \/ \E quote \in Quotes(ops + 1) : process(quote, TRUE)
    \/ \E trade \in Trades(ops + 1) : process(trade, TRUE)

\* The data processor with handlers subscribing while it runs.
SpecBus == Init /\ [][NextBus]_vars

-----------------------------------------------------------------------------
(* Properties of the bus and its subscribers *)

\* How many publications were made on the engine's bus before the first of this
\* payload.
PublishedBefore(payload) ==
    LET at == {n \in DOMAIN msgbus.published : msgbus.published[n].payload = payload}
    IN  (CHOOSE n \in at : \A m \in at : n <= m) - 1

\* C26: publication is not replayed. process(Quote q) publishes q on the quote
\* topic of q.instrument_id during the call, and a handler is invoked with a
\* payload only under a subscription to its topic made before the payload was
\* published: one that subscribes after the publish is never invoked with q.
C26_NoReplay ==
    /\ (last.op = "process" /\ last.data.kind = "Quote") =>
          /\ LastPublished.payload = last.data
          /\ LastPublished.topic = get_quote_topic(last.data.instrument_id)
    /\ \A k \in DOMAIN msgbus.delivered :
          LET d == msgbus.delivered[k]
          IN  \E s \in msgbus.subscriptions :
                 /\ s.handler = d.handler
                 /\ s.topic = d.topic
                 /\ s.since <= PublishedBefore(d.payload)

\* A handler subscribed to the quote topic after a quote was published on it, and
\* a later quote was processed: the handler was invoked with the later quote only.
C26_SubscribedAfterPublish ==
    /\ last.op = "process"
    /\ Len(msgbus.published) = 2
    /\ \E s \in msgbus.subscriptions :
          /\ s.since = 1
          /\ s.topic = msgbus.published[1].topic
          /\ s.topic = msgbus.published[2].topic
          /\ \E k \in DOMAIN msgbus.delivered :
                /\ msgbus.delivered[k].handler = s.handler
                /\ msgbus.delivered[k].payload = msgbus.published[2].payload
          /\ \A k \in DOMAIN msgbus.delivered :
                msgbus.delivered[k].payload # msgbus.published[1].payload

\* The handlers the step invoked, each with what it was handed.
Invoked ==
    SubSeq(msgbus'.delivered, Len(msgbus.delivered) + 1, Len(msgbus'.delivered))

\* C28: process(event) invokes only handlers subscribed on the engine's own bus
\* to the topic of the event's own kind and key, and hands them that event: a
\* Trade reaches no handler subscribed only to the quote topic of the instrument,
\* and a handler subscribed on a bus the engine does not hold is never invoked.
C28_OnlyOwnTopicOnOwnBus ==
    [][IsProcessStep =>
          /\ \A k \in DOMAIN Invoked :
                /\ Invoked[k].payload = last'.data
                /\ \E s \in msgbus.subscriptions :
                      /\ s.handler = Invoked[k].handler
                      /\ s.topic = OwnTopic(last'.data)
          /\ test_msgbus' = test_msgbus
          /\ test_msgbus.delivered = <<>>]_vars

\* A trade was processed while one handler was subscribed to the quote topic of
\* its instrument on the engine's bus and another to its trade topic on the other
\* bus: neither was invoked.
C28_TradeBesideQuoteSubscriber ==
    /\ last.op = "process"
    /\ last.data.kind = "Trade"
    /\ \E s \in msgbus.subscriptions : s.topic = get_quote_topic(last.data.instrument_id)
    /\ \E s \in test_msgbus.subscriptions : s.topic = get_trade_topic(last.data.instrument_id)
    /\ msgbus.delivered = <<>>
    /\ test_msgbus.delivered = <<>>

-----------------------------------------------------------------------------
(* Managed order books *)

BookKinds == {"Delta", "Deltas", "Depth10"}

\* update_order_book: the cache as it leaves it. No handler calls it.
update_order_book(c, data) ==
    IF Cache_order_book(c, InstrumentOf(data)) # None /\ data.kind \in BookKinds
    THEN OrderBook_apply(c, InstrumentOf(data), data)
    ELSE c

\* A holder of the cache has it manage a book for the instrument.
add_order_book(instrument_id) ==
    /\ Cache_order_book(cache, instrument_id) = None
    /\ cache' = Cache_add_order_book(cache, instrument_id)
    /\ last' = [op |-> "add_order_book", instrument_id |-> instrument_id]
    /\ calls' = <<>>
    /\ UNCHANGED <<buffered_deltas_map, config, msgbus, panicked, processed, ops>>
    /\ registry_unchanged

NextBooks ==
    \/ \E instrument_id \in InstrumentIds : add_order_book(instrument_id)
    \/ \E delta \in Deltas(ops + 1) : process(delta, TRUE)
    \/ \E deltas \in DeltasBatches(ops + 1) : process(deltas, TRUE)
    \/ \E depth \in Depths(ops + 1) : process(depth, TRUE)

\* The data processor fed book events, with books managed in the cache.
SpecBooks == InitData /\ [][NextBooks]_vars

\* C27: for every Delta, Deltas or Depth10 event passed to process for instrument
\* I, the event is applied to the book the cache manages for I when there is
\* one, and no book is created or modified when there is none.
C27_BookEventApplied ==
    [][(IsProcessStep /\ last'.data.kind \in BookKinds) =>
          LET I == last'.data.instrument_id
          IN  IF Cache_order_book(cache, I) # None
              THEN cache' = update_order_book(cache, last'.data)
              ELSE cache'.books = cache.books]_vars

=============================================================================
